---- MODULE Spec2Model ----
(***************************************************************************)
(* The Unix-domain-socket random-bytes service of socket-benchmark:        *)
(* socket_server.cc (main, handle_client, generate_random_bytes,           *)
(* signal_handler) and socket_client.cc (main, GetRandomBytes), together   *)
(* with the stream transport between them.  Payload contents are random    *)
(* and never inspected by either side, so a stream is modelled by the      *)
(* number of bytes in flight and the value its header carries.             *)
(***************************************************************************)
EXTENDS Integers, Sequences, FiniteSets, TLC

\* ------------------------------------------------------------- bounds
MaxBytes == 2
MaxIter == 2
MaxTicks == 2
MaxArgs == 2

\* sizeof(RandomBytesRequest) == sizeof(RandomBytesResponse): one uint32_t
HDR == 4

Clients == {"c1", "c2"}
Servers == {"s1", "s2"}

\* one connection per client call: <<client, call number>>
ConnIds == Clients \X (1..MaxIter)
NoConn == <<"none", 0>>

Min(a, b) == IF a < b THEN a ELSE b

\* the 1 MB that the README's implementation details give as the largest request
MB == 1048576

\* request sizes beyond the small ones: around 1 MB, and 1 GB
LargeSizes == {MB - 1, MB, MB + 1, 1024 * MB}

VARIABLES
    path,           \* the socket path in the filesystem: the server bound to it, or "none"
    splitHdr,       \* the transport may deliver or accept a 4-byte header in pieces
    entropyFaulty,  \* getrandom() may fail or return fewer bytes than asked
    srv,            \* per server process: its position and the locals of main/handle_client
    cli,            \* per client process: its position and the locals of main/GetRandomBytes
    conn            \* per connection: both ends and the bytes in flight each way

vars == <<path, splitHdr, entropyFaulty, srv, cli, conn>>

\* ------------------------------------------------------------- records
NullConn ==
    [srv |-> "none", cEnd |-> "closed", sEnd |-> "closed",
     c2s |-> 0, reqNum |-> 0, s2c |-> 0, hdr |-> 0]

InitSrv(pc) ==
    [pc |-> pc, running |-> 1, backlog |-> <<>>, cur |-> NoConn,
     bytes_read |-> 0, num_bytes |-> 0, entropy_calls |-> {}, result |-> 0,
     generated |-> FALSE,
     hdr_sent |-> 0, total_sent |-> 0, res |-> "none",
     selElapsed |-> 0, sigTicks |-> 0, exit |-> -1]

InitCli(n, b) ==
    [pc |-> "loop", iterations |-> n, bytes |-> b, timeout_ms |-> 0, i |-> 0,
     successful_calls |-> 0, results |-> <<>>, last |-> "none", fds |-> 0,
     actual_bytes |-> 0, total_received |-> 0, exit |-> -1,
     argv |-> <<>>, msg |-> "none"]

\* close() of the server's end / of the client's end of a connection; a
\* connection closed at both ends is gone
CloseS(r) ==
    IF r.cEnd = "closed" THEN NullConn
    ELSE [r EXCEPT !.sEnd = "closed", !.c2s = 0]

CloseC(r) ==
    IF r.sEnd = "closed" THEN NullConn
    ELSE [r EXCEPT !.cEnd = "closed", !.s2c = 0]

\* the kernel closing every descriptor of server process s (its listening
\* socket with the connections still queued on it, and, when the process
\* dies, the accepted one)
Teardown(s, all) ==
    [k \in ConnIds |->
        IF conn[k].srv = s /\ (conn[k].sEnd = "queued" \/ (all /\ conn[k].sEnd = "accepted"))
        THEN CloseS(conn[k]) ELSE conn[k]]

\* ------------------------------------------------------------- transport
\* recv(fd, buf, want) with `avail` bytes in flight: what is there, up to
\* `want`; a splitting transport may have delivered only the first half of
\* a header so far.  With nothing in flight recv() blocks, and returns 0
\* (or ECONNRESET) once the peer has closed
RecvResults(avail, want, split) ==
    IF avail = 0 THEN {0}
    ELSE IF split THEN {Min(avail, want), Min(avail, want \div 2)}
    ELSE {Min(avail, want)}

\* send(fd, buf, 4) of a header towards an open peer: all of it, or on a
\* splitting transport only its first half
HdrSendResults(split) ==
    IF split THEN {HDR, HDR \div 2} ELSE {HDR}

\* what one send() or recv() of up to n payload bytes may transfer: any
\* count from 1 to n; for the large sizes only all of it and all but the
\* last byte are followed
Pieces(n) ==
    IF n <= MaxBytes THEN 1..n ELSE {n - 1, n}

\* getrandom(buf, n, 0)
GetrandomResults(n, faulty) ==
    IF faulty THEN {-1, n - 1, n} ELSE {n}

\* ------------------------------------------------------------- server
Listening(s) ==
    srv[s].pc \in {"loop", "select", "recv", "generate", "sendhdr", "senddata", "close"}

Alive(s) == srv[s].pc \notin {"off", "exited", "killed", "crashed"}

\* variant: the early return for num_bytes == 0 left out
GetrandomCallsAlways(num_bytes) == {num_bytes}

\* variant: requests above 1 MB are cut down to 1 MB
GetrandomCallsCapped(num_bytes) ==
    IF num_bytes = 0 THEN {} ELSE {Min(num_bytes, MB)}

\* generate_random_bytes: the sizes it asks of getrandom(): none for
\* num_bytes == 0, else one call for num_bytes
GetrandomCalls(num_bytes) ==
    IF num_bytes = 0 THEN {} ELSE {num_bytes}

\* variant: the check for fewer bytes than requested left out
generate_random_bytesNoShortCheck(num_bytes, result) ==
    IF GetrandomCalls(num_bytes) = {} THEN TRUE
    ELSE result >= 0

generate_random_bytes(num_bytes, result) ==
    IF GetrandomCalls(num_bytes) = {} THEN TRUE
    ELSE IF result < 0 THEN FALSE
    ELSE result = num_bytes

\* variant: the unlink() before bind() left out
SrvStartNoUnlink(s) ==
    /\ srv[s].pc = "start"
    /\ srv' = [srv EXCEPT ![s].pc = "bind"]
    /\ UNCHANGED <<path, splitHdr, entropyFaulty, cli, conn>>

\* variant: a failed unlink() (nothing at the path) ends the start with 1
SrvStartUnlinkMustSucceed(s) ==
    /\ srv[s].pc = "start"
    /\ srv' = IF path = "none"
              THEN [srv EXCEPT ![s].pc = "exited", ![s].exit = 1]
              ELSE [srv EXCEPT ![s].pc = "bind"]
    /\ path' = "none"
    /\ UNCHANGED <<splitHdr, entropyFaulty, cli, conn>>

\* main: socket(); unlink(socket_path)
SrvStart(s) ==
    /\ srv[s].pc = "start"
    /\ path' = "none"
    /\ srv' = [srv EXCEPT ![s].pc = "bind"]
    /\ UNCHANGED <<splitHdr, entropyFaulty, cli, conn>>

\* main: bind(); on failure close(server_fd) and return 1
SrvBind(s) ==
    /\ srv[s].pc = "bind"
    /\ IF path # "none"
       THEN /\ srv' = [srv EXCEPT ![s].pc = "exited", ![s].exit = 1]
            /\ path' = path
       ELSE /\ srv' = [srv EXCEPT ![s].pc = "listen"]
            /\ path' = s
    /\ UNCHANGED <<splitHdr, entropyFaulty, cli, conn>>

\* main: listen(server_fd, 10)
SrvListen(s) ==
    /\ srv[s].pc = "listen"
    /\ srv' = [srv EXCEPT ![s].pc = "loop"]
    /\ UNCHANGED <<path, splitHdr, entropyFaulty, cli, conn>>

\* variant: while (true): the loop condition does not look at the flag
SrvLoopEnterNoCheck(s) ==
    /\ srv[s].pc = "loop"
    /\ srv' = [srv EXCEPT ![s].pc = "select", ![s].selElapsed = 0]
    /\ UNCHANGED <<path, splitHdr, entropyFaulty, cli, conn>>

\* main: while (running) holds, the body is entered up to select()
SrvLoopEnter(s) ==
    /\ srv[s].pc = "loop"
    /\ srv[s].running = 1
    /\ srv' = [srv EXCEPT ![s].pc = "select", ![s].selElapsed = 0]
    /\ UNCHANGED <<path, splitHdr, entropyFaulty, cli, conn>>

\* variant: the flag is looked at wherever the server is, an exchange
\* under way is dropped
SrvShutdownAnywhere(s) ==
    /\ Listening(s)
    /\ srv[s].running = 0
    /\ srv' = [srv EXCEPT ![s].pc = "exited", ![s].exit = 0, ![s].backlog = <<>>,
                          ![s].cur = NoConn, ![s].selElapsed = 0]
    /\ conn' = Teardown(s, TRUE)
    /\ path' = "none"
    /\ UNCHANGED <<splitHdr, entropyFaulty, cli>>

\* main: while (running) fails: close(server_fd); unlink(socket_path); return 0
SrvShutdown(s) ==
    /\ srv[s].pc = "loop"
    /\ srv[s].running = 0
    /\ srv' = [srv EXCEPT ![s].pc = "exited", ![s].exit = 0, ![s].backlog = <<>>,
                          ![s].selElapsed = 0]
    /\ conn' = Teardown(s, TRUE)
    /\ path' = "none"
    /\ UNCHANGED <<splitHdr, entropyFaulty, cli>>

\* main: select() returns 0 after its one-second timeout; continue
SrvSelectTimeout(s) ==
    /\ srv[s].pc = "select"
    /\ srv[s].backlog = <<>>
    /\ srv[s].selElapsed = 1
    /\ srv' = [srv EXCEPT ![s].pc = "loop", ![s].selElapsed = 0]
    /\ UNCHANGED <<path, splitHdr, entropyFaulty, cli, conn>>

\* main: select() reports the listening socket readable; accept(); handle_client is entered
SrvAccept(s) ==
    /\ srv[s].pc = "select"
    /\ srv[s].backlog # <<>>
    /\ LET k == Head(srv[s].backlog) IN
        /\ srv' = [srv EXCEPT ![s].pc = "recv", ![s].selElapsed = 0,
                              ![s].backlog = Tail(@), ![s].cur = k]
        /\ conn' = [conn EXCEPT ![k].sEnd = "accepted"]
    /\ UNCHANGED <<path, splitHdr, entropyFaulty, cli>>

\* main: socket() fails (no descriptor left, for instance): return 1
SrvSocketFail(s) ==
    /\ srv[s].pc = "start"
    /\ srv' = [srv EXCEPT ![s].pc = "exited", ![s].exit = 1]
    /\ UNCHANGED <<path, splitHdr, entropyFaulty, cli, conn>>

\* main: bind() fails for a reason of its own (the directory is missing or
\* not writable): close(server_fd); return 1
SrvBindFail(s) ==
    /\ srv[s].pc = "bind"
    /\ srv' = [srv EXCEPT ![s].pc = "exited", ![s].exit = 1]
    /\ UNCHANGED <<path, splitHdr, entropyFaulty, cli, conn>>

\* main: listen() fails: close(server_fd); unlink(socket_path); return 1
SrvListenFail(s) ==
    /\ srv[s].pc = "listen"
    /\ srv' = [srv EXCEPT ![s].pc = "exited", ![s].exit = 1]
    /\ path' = "none"
    /\ UNCHANGED <<splitHdr, entropyFaulty, cli, conn>>

\* variant: a failed accept() ends the process like a failed listen()
SrvAcceptFailFatal(s) ==
    /\ srv[s].pc = "select"
    /\ srv[s].backlog # <<>>
    /\ srv' = [srv EXCEPT ![s].pc = "exited", ![s].exit = 1, ![s].backlog = <<>>,
                          ![s].selElapsed = 0]
    /\ conn' = Teardown(s, TRUE)
    /\ path' = "none"
    /\ UNCHANGED <<splitHdr, entropyFaulty, cli>>

\* main: select() reports the listening socket readable and accept() fails
\* (no descriptor left): the connection stays queued; continue
SrvAcceptFail(s) ==
    /\ srv[s].pc = "select"
    /\ srv[s].backlog # <<>>
    /\ srv' = [srv EXCEPT ![s].pc = "loop", ![s].selElapsed = 0]
    /\ conn' = conn
    /\ path' = path
    /\ UNCHANGED <<splitHdr, entropyFaulty, cli>>

\* variant: only bytes_read <= 0 is treated as a failed read
SrvRecvRequestAnyLength(s) ==
    /\ srv[s].pc = "recv"
    /\ LET k == srv[s].cur IN
        /\ conn[k].c2s > 0 \/ conn[k].cEnd = "closed"
        /\ \E n \in RecvResults(conn[k].c2s, HDR, splitHdr) :
            /\ conn' = [conn EXCEPT ![k].c2s = @ - n]
            /\ IF n <= 0
               THEN srv' = [srv EXCEPT ![s].pc = "close", ![s].bytes_read = n,
                                       ![s].res = "short_read"]
               ELSE srv' = [srv EXCEPT ![s].pc = "generate", ![s].bytes_read = n,
                                       ![s].num_bytes = conn[k].reqNum]
    /\ UNCHANGED <<path, splitHdr, entropyFaulty, cli>>

\* variant: a short read is followed by further reads until the header is
\* complete
SrvRecvRequestUntilComplete(s) ==
    /\ srv[s].pc = "recv"
    /\ LET k == srv[s].cur IN
        /\ conn[k].c2s > 0 \/ conn[k].cEnd = "closed"
        /\ \E n \in RecvResults(conn[k].c2s, HDR - srv[s].bytes_read, splitHdr) :
            /\ conn' = [conn EXCEPT ![k].c2s = @ - n]
            /\ IF n <= 0
               THEN srv' = [srv EXCEPT ![s].pc = "close", ![s].bytes_read = n,
                                       ![s].res = "short_read"]
               ELSE IF srv[s].bytes_read + n < HDR
               THEN srv' = [srv EXCEPT ![s].bytes_read = @ + n]
               ELSE srv' = [srv EXCEPT ![s].pc = "generate", ![s].bytes_read = @ + n,
                                       ![s].num_bytes = conn[k].reqNum]
    /\ UNCHANGED <<path, splitHdr, entropyFaulty, cli>>

\* handle_client: recv(client_fd, &request, sizeof(request), 0) and its check
SrvRecvRequest(s) ==
    /\ srv[s].pc = "recv"
    /\ LET k == srv[s].cur IN
        /\ conn[k].c2s > 0 \/ conn[k].cEnd = "closed"
        /\ \E n \in RecvResults(conn[k].c2s, HDR, splitHdr) :
            /\ conn' = [conn EXCEPT ![k].c2s = @ - n]
            /\ IF n # HDR
               THEN srv' = [srv EXCEPT ![s].pc = "close", ![s].bytes_read = n,
                                       ![s].res = "short_read"]
               ELSE srv' = [srv EXCEPT ![s].pc = "generate", ![s].bytes_read = n,
                                       ![s].num_bytes = conn[k].reqNum]
    /\ UNCHANGED <<path, splitHdr, entropyFaulty, cli>>

\* handle_client: generate_random_bytes(random_data, request.num_bytes)
SrvGenerate(s) ==
    /\ srv[s].pc = "generate"
    /\ LET calls == GetrandomCalls(srv[s].num_bytes) IN
        \E r \in (IF calls = {} THEN {0}
                  ELSE UNION {GetrandomResults(n, entropyFaulty) : n \in calls}) :
            IF generate_random_bytes(srv[s].num_bytes, r)
            THEN srv' = [srv EXCEPT ![s].pc = "sendhdr", ![s].entropy_calls = calls,
                                    ![s].result = r, ![s].generated = TRUE]
            ELSE srv' = [srv EXCEPT ![s].pc = "close", ![s].entropy_calls = calls,
                                    ![s].result = r, ![s].res = "entropy"]
    /\ UNCHANGED <<path, splitHdr, entropyFaulty, cli, conn>>

\* the process is terminated by SIGPIPE (send() with flags 0 to a peer that
\* has closed; main installs handlers for SIGINT and SIGTERM only): the
\* kernel closes its descriptors, the socket file stays behind
SrvSigpipe(s) ==
    [srv EXCEPT ![s].pc = "killed", ![s].backlog = <<>>, ![s].cur = NoConn,
                ![s].selElapsed = 0]

\* response.actual_bytes = request.num_bytes
ResponseHeader(num_bytes) == num_bytes

\* handle_client: send(client_fd, &response, sizeof(response), 0) and its check
SrvSendHdr(s) ==
    /\ srv[s].pc = "sendhdr"
    /\ LET k == srv[s].cur IN
        IF conn[k].cEnd = "closed"
        THEN /\ srv' = SrvSigpipe(s)
             /\ conn' = Teardown(s, TRUE)
        ELSE \E n \in HdrSendResults(splitHdr) :
            /\ conn' = [conn EXCEPT ![k].s2c = @ + n,
                                    ![k].hdr = ResponseHeader(srv[s].num_bytes)]
            /\ IF n # HDR
               THEN srv' = [srv EXCEPT ![s].pc = "close", ![s].hdr_sent = n,
                                       ![s].res = "hdr_write"]
               ELSE IF srv[s].num_bytes > 0
               THEN srv' = [srv EXCEPT ![s].pc = "senddata", ![s].hdr_sent = n]
               ELSE srv' = [srv EXCEPT ![s].pc = "close", ![s].hdr_sent = n,
                                       ![s].res = "ok"]
    /\ UNCHANGED <<path, splitHdr, entropyFaulty, cli>>

\* variant: one send() of the payload instead of the loop
SrvSendDataSingleShot(s) ==
    /\ srv[s].pc = "senddata"
    /\ LET k == srv[s].cur IN
        IF conn[k].cEnd = "closed"
        THEN /\ srv' = SrvSigpipe(s)
             /\ conn' = Teardown(s, TRUE)
        ELSE \E n \in Pieces(srv[s].num_bytes - srv[s].total_sent) :
            /\ conn' = [conn EXCEPT ![k].s2c = @ + n]
            /\ srv' = [srv EXCEPT ![s].total_sent = @ + n, ![s].pc = "close",
                                  ![s].res = "ok"]
    /\ UNCHANGED <<path, splitHdr, entropyFaulty, cli>>

\* variant: every send() asks for num_bytes, not for what remains
SrvSendDataFullLength(s) ==
    /\ srv[s].pc = "senddata"
    /\ LET k == srv[s].cur IN
        IF conn[k].cEnd = "closed"
        THEN /\ srv' = SrvSigpipe(s)
             /\ conn' = Teardown(s, TRUE)
        ELSE \E n \in Pieces(srv[s].num_bytes) :
            /\ conn' = [conn EXCEPT ![k].s2c = @ + n]
            /\ IF srv[s].total_sent + n < srv[s].num_bytes
               THEN srv' = [srv EXCEPT ![s].total_sent = @ + n]
               ELSE srv' = [srv EXCEPT ![s].total_sent = @ + n, ![s].pc = "close",
                                       ![s].res = "ok"]
    /\ UNCHANGED <<path, splitHdr, entropyFaulty, cli>>

\* handle_client: one turn of while (total_sent < request.num_bytes) { send(...) }
SrvSendData(s) ==
    /\ srv[s].pc = "senddata"
    /\ LET k == srv[s].cur IN
        IF conn[k].cEnd = "closed"
        THEN /\ srv' = SrvSigpipe(s)
             /\ conn' = Teardown(s, TRUE)
        ELSE \E n \in Pieces(srv[s].num_bytes - srv[s].total_sent) :
            /\ conn' = [conn EXCEPT ![k].s2c = @ + n]
            /\ IF srv[s].total_sent + n < srv[s].num_bytes
               THEN srv' = [srv EXCEPT ![s].total_sent = @ + n]
               ELSE srv' = [srv EXCEPT ![s].total_sent = @ + n, ![s].pc = "close",
                                       ![s].res = "ok"]
    /\ UNCHANGED <<path, splitHdr, entropyFaulty, cli>>

\* handle_client: a send() of the payload loop returns -1 for lack of a
\* resource (ENOBUFS, ENOMEM): bytes_sent <= 0, return false
SrvSendDataFail(s) ==
    /\ srv[s].pc = "senddata"
    /\ conn[srv[s].cur].cEnd = "open"
    /\ srv' = [srv EXCEPT ![s].pc = "close", ![s].res = "data_write"]
    /\ UNCHANGED <<path, splitHdr, entropyFaulty, cli, conn>>

\* variant: close(client_fd) left out
SrvCloseLeak(s) ==
    /\ srv[s].pc = "close"
    /\ srv' = [srv EXCEPT ![s].pc = "loop", ![s].cur = NoConn, ![s].bytes_read = 0,
                          ![s].num_bytes = 0, ![s].entropy_calls = {}, ![s].result = 0,
                          ![s].generated = FALSE,
                          ![s].hdr_sent = 0, ![s].total_sent = 0, ![s].res = "none"]
    /\ UNCHANGED <<path, splitHdr, entropyFaulty, cli, conn>>

\* variant: close(client_fd) only when handle_client returned true
SrvCloseOnSuccessOnly(s) ==
    /\ srv[s].pc = "close"
    /\ conn' = IF srv[s].res = "ok" THEN [conn EXCEPT ![srv[s].cur] = CloseS(@)] ELSE conn
    /\ srv' = [srv EXCEPT ![s].pc = "loop", ![s].cur = NoConn, ![s].bytes_read = 0,
                          ![s].num_bytes = 0, ![s].entropy_calls = {}, ![s].result = 0,
                          ![s].generated = FALSE,
                          ![s].hdr_sent = 0, ![s].total_sent = 0, ![s].res = "none"]
    /\ UNCHANGED <<path, splitHdr, entropyFaulty, cli>>

\* main: close(client_fd) once handle_client has returned; next iteration
SrvClose(s) ==
    /\ srv[s].pc = "close"
    /\ conn' = [conn EXCEPT ![srv[s].cur] = CloseS(@)]
    /\ srv' = [srv EXCEPT ![s].pc = "loop", ![s].cur = NoConn, ![s].bytes_read = 0,
                          ![s].num_bytes = 0, ![s].entropy_calls = {}, ![s].result = 0,
                          ![s].generated = FALSE,
                          ![s].hdr_sent = 0, ![s].total_sent = 0, ![s].res = "none"]
    /\ UNCHANGED <<path, splitHdr, entropyFaulty, cli>>

\* variant: the handler does the cleanup itself and ends the process:
\* close(server_fd); unlink(socket_path); exit(0)
signal_handlerCleansUp(s) ==
    /\ Alive(s)
    /\ srv' = [srv EXCEPT ![s].running = 0, ![s].pc = "exited", ![s].exit = 0,
                          ![s].backlog = <<>>, ![s].cur = NoConn, ![s].selElapsed = 0]
    /\ conn' = Teardown(s, TRUE)
    /\ path' = "none"
    /\ UNCHANGED <<splitHdr, entropyFaulty, cli>>

\* signal_handler (SIGINT, SIGTERM): running = 0.  signal() installs it
\* with SA_RESTART, so a recv() or send() under way is resumed; select() is
\* never restarted and returns EINTR, which main answers with continue.  A
\* signal that lands after the loop condition was read and before select()
\* is entered only clears the flag.
signal_handler(s) ==
    /\ Alive(s)
    /\ \E eintr \in (IF srv[s].pc = "select"
                     THEN (IF srv[s].selElapsed = 1 THEN {TRUE} ELSE BOOLEAN)
                     ELSE {FALSE}) :
        IF eintr
        THEN srv' = [srv EXCEPT ![s].running = 0, ![s].pc = "loop", ![s].selElapsed = 0]
        ELSE srv' = [srv EXCEPT ![s].running = 0]
    /\ UNCHANGED <<path, splitHdr, entropyFaulty, cli, conn>>

\* the server process is killed from outside (SIGKILL): the kernel closes
\* its descriptors, nothing is cleaned up and the socket file stays behind
ServerKill(s) ==
    /\ Alive(s)
    /\ srv' = [srv EXCEPT ![s] = InitSrv("crashed")]
    /\ conn' = Teardown(s, TRUE)
    /\ UNCHANGED <<path, splitHdr, entropyFaulty, cli>>

\* a server that cannot take a step until a peer acts or time passes
Blocked(s) ==
    \/ /\ srv[s].pc = "select"
       /\ srv[s].backlog = <<>>
       /\ srv[s].selElapsed = 0
    \/ /\ srv[s].pc = "recv"
       /\ conn[srv[s].cur].c2s = 0
       /\ conn[srv[s].cur].cEnd = "open"

\* one second passes (timeout.tv_sec = 1); the server's own steps take no
\* time, so time passes only while every running server is blocked
Tick ==
    /\ \E s \in Servers : Alive(s)
    /\ \A s \in Servers : Alive(s) => Blocked(s)
    /\ srv' = [s \in Servers |->
                IF ~Alive(s) THEN srv[s]
                ELSE [srv[s] EXCEPT
                        !.selElapsed = IF srv[s].pc = "select" THEN 1 ELSE @,
                        !.sigTicks = IF srv[s].running = 0 THEN Min(@ + 1, MaxTicks) ELSE @]]
    /\ UNCHANGED <<path, splitHdr, entropyFaulty, cli, conn>>

\* ------------------------------------------------------------- client
CurConn(c) == <<c, cli[c].i + 1>>

\* variant: close(sock_fd) left out on the payload failure path
ReturnLeakOnPayload(r, outcome) ==
    [r EXCEPT !.pc = "loop", !.i = @ + 1,
              !.fds = IF outcome = "payload" THEN @ ELSE @ - 1,
              !.results = Append(@, outcome = "ok"), !.last = outcome,
              !.successful_calls = IF outcome = "ok" THEN @ + 1 ELSE @,
              !.actual_bytes = IF outcome = "ok" THEN @ ELSE 0,
              !.total_received = IF outcome = "ok" THEN @ ELSE 0]

\* GetRandomBytes returns: the call's outcome is recorded, main counts it
\* (successful_calls++ on true) and the for loop moves on (++i)
Return(r, outcome) ==
    [r EXCEPT !.pc = "loop", !.i = @ + 1, !.fds = @ - 1,
              !.results = Append(@, outcome = "ok"), !.last = outcome,
              !.successful_calls = IF outcome = "ok" THEN @ + 1 ELSE @,
              !.actual_bytes = IF outcome = "ok" THEN @ ELSE 0,
              !.total_received = IF outcome = "ok" THEN @ ELSE 0]

\* the server a connect() to the socket path reaches, if any
Reachable == {s \in Servers : path = s /\ Listening(s)}

\* variant: close(sock_fd) left out on the connect failure path
ConnectFailedLeak(r) ==
    [Return(r, "connect") EXCEPT !.fds = r.fds]

\* GetRandomBytes when connect() fails: close(sock_fd); return false
ConnectFailed(r) ==
    Return(r, "connect")

\* main: i < iterations; GetRandomBytes: socket(); connect()
CliConnect(c) ==
    /\ cli[c].pc = "loop"
    /\ cli[c].i < cli[c].iterations
    /\ IF Reachable = {}
       THEN /\ cli' = [cli EXCEPT ![c] =
                        ConnectFailed([@ EXCEPT !.fds = @ + 1, !.actual_bytes = 0,
                                                !.total_received = 0])]
            /\ UNCHANGED <<srv, conn>>
       ELSE \E s \in Reachable :
            /\ cli' = [cli EXCEPT ![c] =
                        [@ EXCEPT !.pc = "send", !.fds = @ + 1, !.actual_bytes = 0,
                                  !.total_received = 0]]
            /\ conn' = [conn EXCEPT ![CurConn(c)] =
                        [NullConn EXCEPT !.srv = s, !.cEnd = "open", !.sEnd = "queued"]]
            /\ srv' = [srv EXCEPT ![s].backlog = Append(@, CurConn(c))]
    /\ UNCHANGED <<path, splitHdr, entropyFaulty>>

\* GetRandomBytes: send(sock_fd, &request, sizeof(request), 0) and its check;
\* towards a peer that has closed send() raises SIGPIPE, which the client
\* does not handle
CliSend(c) ==
    /\ cli[c].pc = "send"
    /\ LET k == CurConn(c) IN
        IF conn[k].sEnd = "closed"
        THEN /\ cli' = [cli EXCEPT ![c].pc = "sigpipe", ![c].fds = 0]
             /\ conn' = [conn EXCEPT ![k] = CloseC(@)]
        ELSE \E n \in HdrSendResults(splitHdr) :
            IF n # HDR
            THEN /\ cli' = [cli EXCEPT ![c] = Return(@, "send")]
                 /\ conn' = [conn EXCEPT ![k] =
                                CloseC([@ EXCEPT !.c2s = n, !.reqNum = cli[c].bytes])]
            ELSE /\ cli' = [cli EXCEPT ![c].pc = "recvhdr"]
                 /\ conn' = [conn EXCEPT ![k].c2s = n, ![k].reqNum = cli[c].bytes]
    /\ UNCHANGED <<path, splitHdr, entropyFaulty, srv>>

\* recv(sock_fd, data + total_received, actual_bytes - total_received, 0)
PayloadRecvResults(avail, want) ==
    IF avail = 0 THEN {0} ELSE Pieces(Min(avail, want))

\* variant: the receive loop stops one byte early
PayloadPendingOffByOne(total_received, actual_bytes) ==
    total_received + 1 < actual_bytes

\* while (total_received < response.actual_bytes)
PayloadPending(total_received, actual_bytes) == total_received < actual_bytes

\* variant: only bytes_received <= 0 is treated as a failed header read
CliRecvHdrAnyLength(c) ==
    /\ cli[c].pc = "recvhdr"
    /\ LET k == CurConn(c) IN
        /\ conn[k].s2c > 0 \/ conn[k].sEnd = "closed"
        /\ \E n \in RecvResults(conn[k].s2c, HDR, splitHdr) :
            IF n <= 0
            THEN /\ cli' = [cli EXCEPT ![c] = Return(@, "hdr")]
                 /\ conn' = [conn EXCEPT ![k] = CloseC(@)]
            ELSE IF PayloadPending(0, conn[k].hdr)
            THEN /\ cli' = [cli EXCEPT ![c].pc = "recvdata",
                                       ![c].actual_bytes = conn[k].hdr]
                 /\ conn' = [conn EXCEPT ![k].s2c = @ - n]
            ELSE /\ cli' = [cli EXCEPT ![c] =
                            Return([@ EXCEPT !.actual_bytes = conn[k].hdr], "ok")]
                 /\ conn' = [conn EXCEPT ![k] = CloseC(@)]
    /\ UNCHANGED <<path, splitHdr, entropyFaulty, srv>>

\* variant: with a positive timeout_ms the recv() of the response header
\* gives up when nothing has arrived yet (SO_RCVTIMEO set from the option)
CliRecvHdrTimesOut(c) ==
    /\ cli[c].pc = "recvhdr"
    /\ LET k == CurConn(c) IN
        \/ /\ cli[c].timeout_ms > 0
           /\ conn[k].s2c = 0
           /\ conn[k].sEnd # "closed"
           /\ cli' = [cli EXCEPT ![c] = Return(@, "hdr")]
           /\ conn' = [conn EXCEPT ![k] = CloseC(@)]
        \/ /\ conn[k].s2c > 0 \/ conn[k].sEnd = "closed"
           /\ \E n \in RecvResults(conn[k].s2c, HDR, splitHdr) :
               IF n # HDR
               THEN /\ cli' = [cli EXCEPT ![c] = Return(@, "hdr")]
                    /\ conn' = [conn EXCEPT ![k] = CloseC(@)]
               ELSE IF PayloadPending(0, conn[k].hdr)
               THEN /\ cli' = [cli EXCEPT ![c].pc = "recvdata",
                                          ![c].actual_bytes = conn[k].hdr]
                    /\ conn' = [conn EXCEPT ![k].s2c = @ - n]
               ELSE /\ cli' = [cli EXCEPT ![c] =
                               Return([@ EXCEPT !.actual_bytes = conn[k].hdr], "ok")]
                    /\ conn' = [conn EXCEPT ![k] = CloseC(@)]
    /\ UNCHANGED <<path, splitHdr, entropyFaulty, srv>>

\* GetRandomBytes: recv(sock_fd, &response, sizeof(response), 0) and its
\* check; with actual_bytes == 0 the call is over: close(sock_fd), return true
CliRecvHdr(c) ==
    /\ cli[c].pc = "recvhdr"
    /\ LET k == CurConn(c) IN
        /\ conn[k].s2c > 0 \/ conn[k].sEnd = "closed"
        /\ \E n \in RecvResults(conn[k].s2c, HDR, splitHdr) :
            IF n # HDR
            THEN /\ cli' = [cli EXCEPT ![c] = Return(@, "hdr")]
                 /\ conn' = [conn EXCEPT ![k] = CloseC(@)]
            ELSE IF PayloadPending(0, conn[k].hdr)
            THEN /\ cli' = [cli EXCEPT ![c].pc = "recvdata",
                                       ![c].actual_bytes = conn[k].hdr]
                 /\ conn' = [conn EXCEPT ![k].s2c = @ - n]
            ELSE /\ cli' = [cli EXCEPT ![c] =
                            Return([@ EXCEPT !.actual_bytes = conn[k].hdr], "ok")]
                 /\ conn' = [conn EXCEPT ![k] = CloseC(@)]
    /\ UNCHANGED <<path, splitHdr, entropyFaulty, srv>>

\* variant: a recv() that returns 0 leaves the loop with break; the call
\* then returns true with what it has
CliRecvDataBreakOnEof(c) ==
    /\ cli[c].pc = "recvdata"
    /\ LET k == CurConn(c) IN
        /\ conn[k].s2c > 0 \/ conn[k].sEnd = "closed"
        /\ \E n \in PayloadRecvResults(conn[k].s2c,
                                       cli[c].actual_bytes - cli[c].total_received) :
            IF n <= 0
            THEN /\ cli' = [cli EXCEPT ![c] = Return(@, "ok")]
                 /\ conn' = [conn EXCEPT ![k] = CloseC(@)]
            ELSE IF PayloadPending(cli[c].total_received + n, cli[c].actual_bytes)
            THEN /\ cli' = [cli EXCEPT ![c].total_received = @ + n]
                 /\ conn' = [conn EXCEPT ![k].s2c = @ - n]
            ELSE /\ cli' = [cli EXCEPT ![c] =
                            Return([@ EXCEPT !.total_received = @ + n], "ok")]
                 /\ conn' = [conn EXCEPT ![k] = CloseC(@)]
    /\ UNCHANGED <<path, splitHdr, entropyFaulty, srv>>

\* GetRandomBytes: one turn of while (total_received < response.actual_bytes)
\* { recv(...) }; after the last one close(sock_fd), return true
CliRecvData(c) ==
    /\ cli[c].pc = "recvdata"
    /\ LET k == CurConn(c) IN
        /\ conn[k].s2c > 0 \/ conn[k].sEnd = "closed"
        /\ \E n \in PayloadRecvResults(conn[k].s2c,
                                       cli[c].actual_bytes - cli[c].total_received) :
            IF n <= 0
            THEN /\ cli' = [cli EXCEPT ![c] = Return(@, "payload")]
                 /\ conn' = [conn EXCEPT ![k] = CloseC(@)]
            ELSE IF PayloadPending(cli[c].total_received + n, cli[c].actual_bytes)
            THEN /\ cli' = [cli EXCEPT ![c].total_received = @ + n]
                 /\ conn' = [conn EXCEPT ![k].s2c = @ - n]
            ELSE /\ cli' = [cli EXCEPT ![c] =
                            Return([@ EXCEPT !.total_received = @ + n], "ok")]
                 /\ conn' = [conn EXCEPT ![k] = CloseC(@)]
    /\ UNCHANGED <<path, splitHdr, entropyFaulty, srv>>

\* the command line: options in the order given; an option's argument is a
\* string, a sequence of characters.  "?" is what getopt_long returns for an
\* option it does not know; -l, -q and -s only select what is printed and
\* where the socket is, -q stands for them
ArgValues == {<<"0">>, <<"2">>, <<"-", "1">>, <<"x">>, <<"1", "x">>}

Options ==
    {[opt |-> o, arg |-> v] : o \in {"n", "b", "t"}, v \in ArgValues}
        \cup {[opt |-> o, arg |-> <<>>] : o \in {"q", "h", "?"}}

ArgLists == UNION {[1..n -> Options] : n \in 0..MaxArgs}

DigitVal ==
    "0" :> 0 @@ "1" :> 1 @@ "2" :> 2 @@ "3" :> 3 @@ "4" :> 4 @@
    "5" :> 5 @@ "6" :> 6 @@ "7" :> 7 @@ "8" :> 8 @@ "9" :> 9

RECURSIVE AtoiDigits(_, _)
AtoiDigits(str, acc) ==
    IF str = <<>> \/ Head(str) \notin DOMAIN DigitVal THEN acc
    ELSE AtoiDigits(Tail(str), acc * 10 + DigitVal[Head(str)])

\* atoi(optarg): leading blanks, an optional sign, then digits up to the
\* first character that is none; 0 when there is no digit
RECURSIVE atoi(_)
atoi(str) ==
    IF str = <<>> THEN 0
    ELSE IF Head(str) = " " THEN atoi(Tail(str))
    ELSE IF Head(str) = "-" THEN 0 - AtoiDigits(Tail(str), 0)
    ELSE IF Head(str) = "+" THEN AtoiDigits(Tail(str), 0)
    ELSE AtoiDigits(str, 0)

\* variant: iterations is checked for being negative only
RECURSIVE getopt_loopZeroIterations(_, _)
getopt_loopZeroIterations(args, cfg) ==
    IF args = <<>> THEN cfg
    ELSE LET o == Head(args)
             v == atoi(o.arg)
         IN CASE o.opt = "n" ->
                    IF v < 0
                    THEN [cfg EXCEPT !.iterations = v, !.ret = 1, !.msg = "error"]
                    ELSE getopt_loopZeroIterations(Tail(args), [cfg EXCEPT !.iterations = v])
              [] o.opt = "b" ->
                    IF v <= 0
                    THEN [cfg EXCEPT !.bytes = v, !.ret = 1, !.msg = "error"]
                    ELSE getopt_loopZeroIterations(Tail(args), [cfg EXCEPT !.bytes = v])
              [] o.opt = "t" ->
                    IF v < 0
                    THEN [cfg EXCEPT !.timeout_ms = v, !.ret = 1, !.msg = "error"]
                    ELSE getopt_loopZeroIterations(Tail(args), [cfg EXCEPT !.timeout_ms = v])
              [] o.opt = "q" -> getopt_loopZeroIterations(Tail(args), cfg)
              [] o.opt = "h" -> [cfg EXCEPT !.ret = 0, !.msg = "usage"]
              [] OTHER -> [cfg EXCEPT !.ret = 1, !.msg = "usage"]

\* main: while ((c = getopt_long(...)) != -1) switch (c): the locals of
\* main after the loop; ret is the value main returns from inside the loop,
\* -1 when it goes on, msg what it printed when it returned
RECURSIVE getopt_loop(_, _)
getopt_loop(args, cfg) ==
    IF args = <<>> THEN cfg
    ELSE LET o == Head(args)
             v == atoi(o.arg)
         IN CASE o.opt = "n" ->
                    IF v <= 0
                    THEN [cfg EXCEPT !.iterations = v, !.ret = 1, !.msg = "error"]
                    ELSE getopt_loop(Tail(args), [cfg EXCEPT !.iterations = v])
              [] o.opt = "b" ->
                    IF v <= 0
                    THEN [cfg EXCEPT !.bytes = v, !.ret = 1, !.msg = "error"]
                    ELSE getopt_loop(Tail(args), [cfg EXCEPT !.bytes = v])
              [] o.opt = "t" ->
                    IF v < 0
                    THEN [cfg EXCEPT !.timeout_ms = v, !.ret = 1, !.msg = "error"]
                    ELSE getopt_loop(Tail(args), [cfg EXCEPT !.timeout_ms = v])
              [] o.opt = "q" -> getopt_loop(Tail(args), cfg)
              [] o.opt = "h" -> [cfg EXCEPT !.ret = 0, !.msg = "usage"]
              [] OTHER -> [cfg EXCEPT !.ret = 1, !.msg = "usage"]

\* main, from its start to the first call: the defaults, the option loop
\* and either a return from inside it or the client object and the for loop
CliMain(c) ==
    /\ cli[c].pc = "args"
    /\ LET cfg == getopt_loop(cli[c].argv,
                              [iterations |-> 1, bytes |-> 10, timeout_ms |-> 0,
                               ret |-> -1, msg |-> "none"])
       IN cli' = [cli EXCEPT ![c].iterations = cfg.iterations,
                             ![c].bytes = cfg.bytes,
                             ![c].timeout_ms = cfg.timeout_ms,
                             ![c].msg = cfg.msg,
                             ![c].exit = cfg.ret,
                             ![c].pc = IF cfg.ret = -1 THEN "loop" ELSE "exited"]
    /\ UNCHANGED <<path, splitHdr, entropyFaulty, srv, conn>>

\* variant: any successful call makes the exit code 0
ExitCodeAnySuccess(successful_calls, iterations) ==
    IF successful_calls > 0 THEN 0 ELSE 1

\* return (successful_calls == iterations) ? 0 : 1
ExitCode(successful_calls, iterations) ==
    IF successful_calls = iterations THEN 0 ELSE 1

\* main: i < iterations fails; the summary is printed and main returns
CliExit(c) ==
    /\ cli[c].pc = "loop"
    /\ ~(cli[c].i < cli[c].iterations)
    /\ cli' = [cli EXCEPT ![c].pc = "exited",
                          ![c].exit = ExitCode(cli[c].successful_calls, cli[c].iterations)]
    /\ UNCHANGED <<path, splitHdr, entropyFaulty, srv, conn>>

\* the client process is killed from outside during a call (SIGKILL, ^C):
\* the kernel closes its socket
ClientKill(c) ==
    /\ cli[c].pc \in {"send", "recvhdr", "recvdata"}
    /\ cli' = [cli EXCEPT ![c].pc = "killed", ![c].fds = 0]
    /\ conn' = [conn EXCEPT ![CurConn(c)] = CloseC(@)]
    /\ UNCHANGED <<path, splitHdr, entropyFaulty, srv>>

\* ------------------------------------------------------------- specification
\* One server is launched; the second instance stays off.  Client c1 runs
\* with -n 1 or MaxIter and -b 1 or MaxBytes, or with bytes = 0, which stands
\* for GetRandomBytes(0) called directly (main rejects -b 0).  Client c2 is
\* a concurrent single call.
\* The environment may split headers, fail getrandom(), refuse a resource
\* to the server's system calls and kill either process.
Init ==
    /\ path = "none"
    /\ splitHdr = TRUE
    /\ entropyFaulty = TRUE
    /\ srv = [s \in Servers |-> IF s = "s1" THEN InitSrv("start") ELSE InitSrv("off")]
    /\ \E n \in {1, MaxIter}, b \in {0, 1, MaxBytes} :
        cli = [c \in Clients |-> IF c = "c1" THEN InitCli(n, b) ELSE InitCli(1, 1)]
    /\ conn = [k \in ConnIds |-> NullConn]

ServerStep(s) ==
    \/ SrvStart(s)
    \/ SrvBind(s)
    \/ SrvListen(s)
    \/ SrvLoopEnter(s)
    \/ SrvShutdown(s)
    \/ SrvSelectTimeout(s)
    \/ SrvAccept(s)
    \/ SrvRecvRequest(s)
    \/ SrvGenerate(s)
    \/ SrvSendHdr(s)
    \/ SrvSendData(s)
    \/ SrvClose(s)

\* the system calls of main that fail for lack of a resource
ServerFault(s) ==
    \/ SrvSocketFail(s)
    \/ SrvBindFail(s)
    \/ SrvListenFail(s)
    \/ SrvAcceptFail(s)

ClientStep(c) ==
    \/ CliConnect(c)
    \/ CliSend(c)
    \/ CliRecvHdr(c)
    \/ CliRecvData(c)
    \/ CliExit(c)

Next ==
    \/ \E s \in Servers : ServerStep(s)
    \/ \E s \in Servers : signal_handler(s)
    \/ \E c \in Clients : ClientStep(c)
    \/ \E c \in Clients : ClientKill(c)
    \/ \E s \in Servers : ServerKill(s)
    \/ \E s \in Servers : ServerFault(s)
    \/ Tick

Spec == Init /\ [][Next]_vars

\* A server that is up and is left running, in an environment without
\* faults: headers travel whole, getrandom() succeeds, no process is
\* signalled or killed.  Both processes are scheduled whenever they can run.
InitRunning ==
    /\ path = "s1"
    /\ splitHdr = FALSE
    /\ entropyFaulty = FALSE
    /\ srv = [s \in Servers |-> IF s = "s1" THEN InitSrv("loop") ELSE InitSrv("off")]
    /\ \E n \in 1..MaxIter, b \in 0..MaxBytes :
        cli = [c \in Clients |-> IF c = "c1" THEN InitCli(n, b) ELSE InitCli(1, 1)]
    /\ conn = [k \in ConnIds |-> NullConn]

ServerServe(s) ==
    \/ SrvLoopEnter(s)
    \/ SrvSelectTimeout(s)
    \/ SrvAccept(s)
    \/ SrvRecvRequest(s)
    \/ SrvGenerate(s)
    \/ SrvSendHdr(s)
    \/ SrvSendData(s)
    \/ SrvClose(s)

NextRunning ==
    \/ \E s \in Servers : ServerServe(s)
    \/ \E c \in Clients : ClientStep(c)
    \/ Tick

SpecRunning ==
    /\ InitRunning
    /\ [][NextRunning]_vars
    /\ \A s \in Servers : WF_vars(ServerServe(s))
    /\ \A c \in Clients : WF_vars(ClientStep(c))

\* A running server in the same environment, except that getrandom()
\* may fail; client c1 makes one call for a large size (GetRandomBytes
\* takes any uint32_t).
InitSizes ==
    /\ path = "s1"
    /\ splitHdr = FALSE
    /\ entropyFaulty = TRUE
    /\ srv = [s \in Servers |-> IF s = "s1" THEN InitSrv("loop") ELSE InitSrv("off")]
    /\ \E b \in LargeSizes :
        cli = [c \in Clients |-> IF c = "c1" THEN InitCli(1, b) ELSE InitCli(1, 1)]
    /\ conn = [k \in ConnIds |-> NullConn]

SpecSizes == InitSizes /\ [][NextRunning]_vars

\* A second server instance s2 is launched on the same path, which is held
\* by a running instance s1, or holds the socket file a crashed instance
\* left behind, or does not exist.  Headers travel whole and getrandom()
\* succeeds; either instance may be signalled.
InitTwo ==
    /\ splitHdr = FALSE
    /\ entropyFaulty = FALSE
    /\ \E old \in {"loop", "crashed", "off"} :
        /\ path = IF old = "off" THEN "none" ELSE "s1"
        /\ srv = [s \in Servers |-> IF s = "s1" THEN InitSrv(old) ELSE InitSrv("start")]
    /\ cli = [c \in Clients |-> IF c = "c1" THEN InitCli(MaxIter, 1) ELSE InitCli(1, 1)]
    /\ conn = [k \in ConnIds |-> NullConn]

NextTwo ==
    \/ \E s \in Servers : ServerStep(s)
    \/ \E s \in Servers : signal_handler(s)
    \/ \E c \in Clients : ClientStep(c)
    \/ Tick

SpecTwo ==
    /\ InitTwo
    /\ [][NextTwo]_vars
    /\ \A s \in Servers : WF_vars(ServerStep(s))

\* Client c1 is launched with a command line, against a running server in
\* an environment without faults.
InitArgs ==
    /\ path = "s1"
    /\ splitHdr = FALSE
    /\ entropyFaulty = FALSE
    /\ srv = [s \in Servers |-> IF s = "s1" THEN InitSrv("loop") ELSE InitSrv("off")]
    /\ \E a \in ArgLists :
        cli = [c \in Clients |->
                IF c = "c1" THEN [InitCli(1, 10) EXCEPT !.pc = "args", !.argv = a]
                ELSE InitCli(1, 1)]
    /\ conn = [k \in ConnIds |-> NullConn]

NextArgs ==
    \/ \E c \in Clients : CliMain(c)
    \/ NextRunning

SpecArgs == InitArgs /\ [][NextArgs]_vars

\* A running server and the two clients with every fault of an exchange:
\* headers split, getrandom() failing, a payload send() failing, accept()
\* failing, and either process killed at any point.
InitIO ==
    /\ path = "s1"
    /\ splitHdr = TRUE
    /\ entropyFaulty = TRUE
    /\ srv = [s \in Servers |-> IF s = "s1" THEN InitSrv("loop") ELSE InitSrv("off")]
    /\ \E n \in {1, MaxIter}, b \in {0, 1, MaxBytes} :
        cli = [c \in Clients |-> IF c = "c1" THEN InitCli(n, b) ELSE InitCli(1, 1)]
    /\ conn = [k \in ConnIds |-> NullConn]

NextIO ==
    \/ \E s \in Servers : ServerServe(s)
    \/ \E s \in Servers : SrvAcceptFail(s)
    \/ \E s \in Servers : SrvSendDataFail(s)
    \/ \E s \in Servers : ServerKill(s)
    \/ \E c \in Clients : ClientStep(c)
    \/ \E c \in Clients : ClientKill(c)
    \/ Tick

SpecIO == InitIO /\ [][NextIO]_vars

\* The running server without faults, with one peer that may stall: client
\* c2 may stay for ever between its connect() and its send() (it is stopped,
\* or it is another program that connects and says nothing).  Everything
\* else is scheduled whenever it can run.
StalledPeer == "c2"

ClientStepButSend(c) ==
    \/ CliConnect(c)
    \/ CliRecvHdr(c)
    \/ CliRecvData(c)
    \/ CliExit(c)

SpecStall ==
    /\ InitRunning
    /\ [][NextRunning]_vars
    /\ \A s \in Servers : WF_vars(ServerServe(s))
    /\ \A c \in Clients \ {StalledPeer} : WF_vars(ClientStep(c))
    /\ WF_vars(ClientStepButSend(StalledPeer))

\* The process behind the socket path need not be this server: a peer of
\* the client may answer a request with any actual_bytes in the response
\* header and then send that many payload bytes.
PeerSendHdr(s) ==
    /\ srv[s].pc = "sendhdr"
    /\ conn[srv[s].cur].cEnd = "open"
    /\ \E a \in 0..MaxBytes :
        /\ conn' = [conn EXCEPT ![srv[s].cur].s2c = @ + HDR, ![srv[s].cur].hdr = a]
        /\ IF a > 0
           THEN srv' = [srv EXCEPT ![s].pc = "senddata", ![s].hdr_sent = HDR,
                                   ![s].num_bytes = a]
           ELSE srv' = [srv EXCEPT ![s].pc = "close", ![s].hdr_sent = HDR,
                                   ![s].num_bytes = a, ![s].res = "ok"]
    /\ UNCHANGED <<path, splitHdr, entropyFaulty, cli>>

NextPeer ==
    \/ NextRunning
    \/ \E s \in Servers : PeerSendHdr(s)

SpecPeer == InitRunning /\ [][NextPeer]_vars

\* ------------------------------------------------------------- claims
AllTrue(seq) == \A j \in 1..Len(seq) : seq[j]

\* C1 (round trip): whenever a call of GetRandomBytes has returned success,
\* the response header it read carried actual_bytes equal to the num_bytes it
\* asked for, and it received exactly that many payload bytes.
RoundTrip ==
    \A c \in Clients :
        (cli[c].pc \in {"loop", "exited"} /\ cli[c].last = "ok")
            => /\ cli[c].actual_bytes = cli[c].bytes
               /\ cli[c].total_received = cli[c].bytes

RoundTripWitness ==
    \E c \in Clients :
        /\ cli[c].pc = "exited"
        /\ cli[c].last = "ok"
        /\ cli[c].bytes = MaxBytes
        /\ cli[c].total_received = MaxBytes

\* C2 (connection isolation): whatever happens on a connection (short or
\* empty request read, getrandom failure, the client closing before or while
\* the response is written), the server process is not terminated by it.
ServerSurvivesConnections ==
    \A s \in Servers : srv[s].pc # "killed"

\* C3 (shutdown latency and cleanup): once the signal has been delivered the
\* server has left its loop before two one-second ticks have passed, from
\* polling as from servicing a client, and a server that has shut down has
\* closed its listening socket and no longer owns the path.
ShutdownWithinTwoTicks ==
    \A s \in Servers :
        /\ (srv[s].running = 0 /\ srv[s].sigTicks >= 2) => srv[s].pc = "exited"
        /\ (srv[s].pc = "exited" /\ srv[s].exit = 0) => (path # s /\ ~Listening(s))

\* C4 (header in two fragments): when the whole request header is on its
\* way and the transport has delivered its first half, the server's decode
\* of the request does not fail.
FragmentedHeaderDecodes ==
    \A s \in Servers :
        (/\ srv[s].pc = "close"
         /\ srv[s].bytes_read = HDR \div 2
         /\ conn[srv[s].cur].c2s = HDR - HDR \div 2)
            => srv[s].res # "short_read"

\* C5 (one connection at a time): a server holds at most one accepted
\* connection, the one it is handling; a queued connection becomes accepted
\* only in a step taken from select() while the server holds no accepted
\* connection, and until then no byte of its request is read and no byte
\* is sent on it.
Accepted(s) == {k \in ConnIds : conn[k].srv = s /\ conn[k].sEnd = "accepted"}

OneConnectionAtATime ==
    [][\A s \in Servers :
        /\ Cardinality(Accepted(s)') <= 1
        /\ Accepted(s)' \subseteq {srv'[s].cur}
        /\ \A k \in Accepted(s)' \ Accepted(s) :
            /\ srv[s].pc = "select"
            /\ Accepted(s) = {}
            /\ conn[k].sEnd = "queued"
        /\ \A k \in ConnIds :
            (conn[k].srv = s /\ conn[k].sEnd = "queued" /\ conn'[k].sEnd = "queued")
                => (conn'[k].c2s >= conn[k].c2s /\ conn'[k].s2c = 0)]_vars

OneConnectionAtATimeWitness ==
    \E s \in Servers :
        /\ srv[s].pc = "senddata"
        /\ srv[s].backlog # <<>>
        /\ conn[Head(srv[s].backlog)].c2s = HDR

\* C6 (ordering within one connection): generation starts only once the
\* full request header was read; no response byte is sent before generation
\* has succeeded; no payload byte is sent before the whole response header.
OrderingWithinConnection ==
    \A s \in Servers :
        /\ srv[s].generated => srv[s].bytes_read = HDR
        /\ srv[s].pc \in {"generate", "sendhdr", "senddata"} => srv[s].bytes_read = HDR
        /\ (srv[s].hdr_sent > 0 \/ srv[s].total_sent > 0) => srv[s].generated
        /\ srv[s].total_sent > 0 => srv[s].hdr_sent = HDR
        /\ srv[s].cur # NoConn =>
            /\ conn[srv[s].cur].s2c > 0 => srv[s].generated
            /\ conn[srv[s].cur].s2c > HDR => srv[s].hdr_sent = HDR
            /\ conn[srv[s].cur].s2c <= srv[s].hdr_sent + srv[s].total_sent
        /\ srv[s].res = "entropy" => (srv[s].hdr_sent = 0 /\ conn[srv[s].cur].s2c = 0)

OrderingWitness ==
    \E s \in Servers :
        /\ srv[s].pc = "senddata"
        /\ srv[s].total_sent > 0
        /\ srv[s].total_sent < srv[s].num_bytes

\* C7 (client exit code): a client that has returned from main exits with 0
\* if all its calls succeeded and with 1 otherwise.
ExitCodeReflectsCalls ==
    \A c \in Clients :
        cli[c].pc = "exited" =>
            /\ cli[c].exit \in {0, 1}
            /\ cli[c].exit = 0 <=>
                (Len(cli[c].results) = cli[c].iterations /\ AllTrue(cli[c].results))

ExitCodeWitness ==
    \E c \in Clients :
        /\ cli[c].pc = "exited"
        /\ cli[c].iterations = MaxIter
        /\ cli[c].results[1]
        /\ ~cli[c].results[MaxIter]
        /\ cli[c].exit = 1

\* C8 (per-call independence): a client process that has ended by itself
\* (returned from main, or was terminated by its own send()) has issued all
\* of its calls, and successful_calls counts the calls that returned success.
AllCallsIssued ==
    \A c \in Clients :
        cli[c].pc \in {"exited", "sigpipe"} =>
            /\ Len(cli[c].results) = cli[c].iterations
            /\ cli[c].successful_calls =
                Cardinality({j \in 1..Len(cli[c].results) : cli[c].results[j]})

\* C10 (no server reachable): a call made while no listening server is bound
\* at the path fails at connect: nothing is sent and no connection comes to
\* exist, the socket is closed again, and the driver goes on to the next
\* iteration; a client whose last call failed so exits with code 1.
NoServerFailsAtConnect ==
    /\ [][\A c \in Clients :
            (/\ cli[c].pc = "loop"
             /\ cli[c].i < cli[c].iterations
             /\ Reachable = {}
             /\ cli'[c] # cli[c])
                => /\ cli'[c].last = "connect"
                   /\ cli'[c].results = Append(cli[c].results, FALSE)
                   /\ cli'[c].successful_calls = cli[c].successful_calls
                   /\ cli'[c].i = cli[c].i + 1
                   /\ cli'[c].pc = "loop"
                   /\ cli'[c].fds = 0
                   /\ conn' = conn
                   /\ srv' = srv]_vars
    /\ [](\A c \in Clients :
            (cli[c].pc = "exited" /\ cli[c].last = "connect") => cli[c].exit = 1)

NoServerWitness ==
    \E c \in Clients :
        /\ path = "none"
        /\ cli[c].pc = "exited"
        /\ cli[c].iterations = MaxIter
        /\ cli[c].last = "connect"
        /\ \A j \in 1..MaxIter : ~cli[c].results[j]
        /\ cli[c].exit = 1

\* C9 (fault-free runs succeed): against a running server, with headers
\* delivered whole and getrandom() succeeding, every client eventually
\* returns from main having made all of its calls successfully, with exit
\* code 0.
FaultFreeRunsSucceed ==
    <>(\A c \in Clients :
        /\ cli[c].pc = "exited"
        /\ Len(cli[c].results) = cli[c].iterations
        /\ AllTrue(cli[c].results)
        /\ cli[c].exit = 0)

FaultFreeWitness ==
    /\ ~splitHdr
    /\ ~entropyFaulty
    /\ \A c \in Clients : cli[c].pc = "exited" /\ cli[c].exit = 0
    /\ cli["c1"].iterations = MaxIter
    /\ cli["c1"].bytes = MaxBytes
    /\ cli["c1"].successful_calls = MaxIter

\* C11 (zero-length request): a request decoded with num_bytes == 0 makes
\* no getrandom() call and no payload write, cannot fail for entropy, and
\* its response header carries actual_bytes == 0; a client asking for 0
\* bytes never reads payload: its read of the header ends the call, as a
\* success with actual_bytes == 0 and nothing received, or as a header error.
ZeroLengthRequest ==
    /\ [](\A s \in Servers :
            (srv[s].bytes_read = HDR /\ srv[s].num_bytes = 0) =>
                /\ srv[s].entropy_calls = {}
                /\ srv[s].total_sent = 0
                /\ srv[s].pc # "senddata"
                /\ srv[s].res \in {"none", "ok", "hdr_write"}
                /\ srv[s].res = "ok" => srv[s].hdr_sent = HDR
                /\ (srv[s].cur # NoConn /\ conn[srv[s].cur].s2c > 0)
                        => conn[srv[s].cur].hdr = 0)
    /\ [](\A c \in Clients :
            cli[c].bytes = 0 =>
                /\ cli[c].pc # "recvdata"
                /\ cli[c].total_received = 0
                /\ cli[c].last # "payload"
                /\ cli[c].last = "ok" => cli[c].actual_bytes = 0)
    /\ [][\A c \in Clients :
            (cli[c].bytes = 0 /\ cli[c].pc = "recvhdr" /\ cli'[c].pc # "recvhdr")
                => \/ cli'[c].pc = "killed"
                   \/ /\ cli'[c].pc = "loop"
                      /\ cli'[c].last \in {"ok", "hdr"}
                      /\ cli'[c].fds = 0]_vars

ZeroLengthWitness ==
    /\ cli["c1"].bytes = 0
    /\ cli["c1"].pc = "exited"
    /\ cli["c1"].iterations = MaxIter
    /\ cli["c1"].successful_calls = MaxIter
    /\ cli["c1"].exit = 0

\* C12 (entropy-source failure): when getrandom() has failed or returned
\* fewer bytes than asked, the server has sent and sends no byte on that
\* connection and its next step closes it (as does the kernel if the process
\* is killed first); the client of that connection is
\* waiting for the response header, and a client whose header read finds the
\* connection closed with nothing sent ends the call as a header receive
\* error, counted as failed.
EntropyFailed(s) ==
    srv[s].entropy_calls # {} /\ srv[s].result # srv[s].num_bytes

EntropyFailureSendsNothing ==
    /\ [](\A s \in Servers :
            (EntropyFailed(s) /\ Alive(s)) =>
                /\ srv[s].pc = "close"
                /\ srv[s].res = "entropy"
                /\ ~srv[s].generated
                /\ srv[s].hdr_sent = 0
                /\ srv[s].total_sent = 0
                /\ conn[srv[s].cur].s2c = 0
                /\ LET c == srv[s].cur[1] IN
                    /\ cli[c].pc \in {"recvhdr", "killed"}
                    /\ cli[c].pc = "recvhdr" => CurConn(c) = srv[s].cur)
    /\ [][\A s \in Servers :
            (EntropyFailed(s) /\ Alive(s) /\ srv'[s] # srv[s] /\ srv'[s].pc # "close")
                => /\ srv'[s].pc \in {"loop", "crashed"}
                   /\ conn'[srv[s].cur].sEnd = "closed"
                   /\ conn'[srv[s].cur].s2c = 0]_vars
    /\ [][\A c \in Clients :
            (/\ cli[c].pc = "recvhdr"
             /\ conn[CurConn(c)].sEnd = "closed"
             /\ conn[CurConn(c)].s2c = 0
             /\ cli'[c] # cli[c])
                => \/ cli'[c].pc = "killed"
                   \/ /\ cli'[c].pc = "loop"
                      /\ cli'[c].last = "hdr"
                      /\ cli'[c].results = Append(cli[c].results, FALSE)
                      /\ cli'[c].successful_calls = cli[c].successful_calls
                      /\ cli'[c].fds = 0]_vars

EntropyFailureWitness ==
    \E s \in Servers :
        /\ srv[s].pc = "close"
        /\ srv[s].res = "entropy"
        /\ srv[s].num_bytes = MaxBytes
        /\ srv[s].result = MaxBytes - 1
        /\ cli[srv[s].cur[1]].pc = "recvhdr"

\* C13 (accepted connections are always closed): handle_client returns
\* with one of the outcomes success, short request read, entropy failure or
\* header write failure, and for each of them the step that follows closes
\* the accepted connection (as does the kernel if the process is killed
\* first); a server that is at its loop condition, in
\* select() or has left the loop holds no accepted connection.
HandledOutcomes == {"ok", "short_read", "entropy", "hdr_write"}

OpenConns(c) == {k \in ConnIds : k[1] = c /\ conn[k].cEnd = "open"}

CallOutcomes == {"connect", "send", "hdr", "payload", "ok"}

FreshConnectionPerCall ==
    /\ [](\A c \in Clients :
            /\ cli[c].fds \in {0, 1}
            /\ cli[c].pc \in {"send", "recvhdr", "recvdata"} <=> cli[c].fds = 1
            /\ Cardinality(OpenConns(c)) = cli[c].fds
            /\ OpenConns(c) \subseteq {CurConn(c)})
    /\ [][\A c \in Clients :
            /\ (cli[c].pc = "loop" /\ cli'[c].pc = "send")
                    => /\ conn[CurConn(c)] = NullConn
                       /\ OpenConns(c)' = {CurConn(c)}
            /\ cli'[c].i # cli[c].i
                    => /\ cli'[c].i = cli[c].i + 1
                       /\ cli'[c].last \in CallOutcomes
                       /\ cli'[c].fds = 0
                       /\ OpenConns(c)' = {}
                       /\ Len(cli'[c].results) = cli'[c].i]_vars

FreshConnectionWitness ==
    \E c \in Clients :
        /\ cli[c].pc = "exited"
        /\ cli[c].iterations = MaxIter
        /\ cli[c].results[1]
        /\ cli[c].last = "payload"
        /\ cli[c].fds = 0

\* C15 (no server-side size cap): for requests of 1 MB - 1, 1 MB, 1 MB + 1
\* and 1 GB the server decodes the size the client sent, asks getrandom()
\* for exactly that size in one call, fails the request only when
\* getrandom() itself did not deliver that size, and otherwise announces and
\* sends exactly that size.
Decoded(s) == srv[s].bytes_read = HDR /\ srv[s].pc \in {"generate", "sendhdr", "senddata", "close"}

RequestsAboveOneMBRefused ==
    \A c \in Clients :
        ~(/\ cli[c].bytes > MB
          /\ cli[c].last = "ok"
          /\ cli[c].total_received = cli[c].bytes)

\* C17 (two servers on one path): a connect() reaches at most one server;
\* the start of the second instance removes the path and then binds it
\* without touching the first instance or its connections; the first
\* instance stays in its loop until it is signalled itself; and once the
\* second instance has bound the path, every new connection is one to the
\* second instance.
HasBound(s) == srv[s].pc \notin {"off", "start", "bind"}

TwoServersOnOnePath ==
    /\ [](/\ Cardinality(Reachable) <= 1
          /\ (srv["s1"].pc \notin {"off", "crashed"} /\ srv["s1"].running = 1)
                => Listening("s1"))
    /\ [][(srv["s2"].pc = "start" /\ srv'["s2"].pc # "start")
            => /\ srv'["s2"].pc = "bind"
               /\ path' = "none"
               /\ srv'["s1"] = srv["s1"]
               /\ conn' = conn]_vars
    /\ [][(srv["s2"].pc = "bind" /\ srv'["s2"].pc # "bind")
            => /\ srv'["s2"].pc = "listen"
               /\ path' = "s2"
               /\ srv'["s1"] = srv["s1"]
               /\ conn' = conn]_vars
    /\ [][\A k \in ConnIds :
            (conn[k] = NullConn /\ conn'[k] # NullConn)
                => /\ conn'[k].srv \in Reachable
                   /\ HasBound("s2") => conn'[k].srv = "s2"]_vars

TwoServersWitness ==
    \E k1, k2 \in ConnIds :
        /\ path = "s2"
        /\ conn[k1].srv = "s1"
        /\ conn[k1].sEnd = "accepted"
        /\ srv["s1"].pc = "senddata"
        /\ conn[k2].srv = "s2"
        /\ conn[k2].sEnd = "accepted"
        /\ srv["s2"].pc = "senddata"

\* C19 (idempotent startup): the start of a server removes whatever is at
\* the path and goes on to bind whether or not anything was there; with a
\* running instance's socket, a crashed instance's stale file or nothing at
\* the path, no step of the startup ends the process and the instance comes
\* to hold the path and to listen.
IdempotentStartup ==
    /\ [][(srv["s2"].pc = "start" /\ srv'["s2"] # srv["s2"])
            => /\ srv'["s2"].pc \in {"start", "bind"}
               /\ srv'["s2"].pc = "bind" => path' = "none"]_vars
    /\ [][(srv["s2"].pc = "bind" /\ srv'["s2"] # srv["s2"])
            => /\ srv'["s2"].pc \in {"bind", "listen"}
               /\ srv'["s2"].pc = "listen" => path' = "s2"]_vars
    /\ [][(srv["s2"].pc = "listen" /\ srv'["s2"] # srv["s2"])
            => srv'["s2"].pc \in {"listen", "loop"}]_vars
    /\ [](srv["s2"].pc = "exited" => srv["s2"].exit = 0)
    /\ <>(srv["s2"].pc = "loop")

IdempotentStartupWitness ==
    /\ srv["s1"].pc = "crashed"
    /\ srv["s2"].pc = "recv"
    /\ path = "s2"

\* C18 (startup failures are fatal, accept failures are not): a server
\* leaves its startup (socket, bind, listen) either for the next startup
\* step or by exiting with status 1, its listening socket closed, and after
\* a failed listen() with the path removed; a server that exited with
\* status 1 never entered the loop, so no connection was ever made to it.
\* A step out of select() leaves the server in the loop, still listening
\* and with the connections queued for it kept, also when accept() failed;
\* only a signal that ends the process takes it out.
StartupFailuresFatal ==
    /\ [][\A s \in Servers :
            (srv[s].pc \in {"start", "bind", "listen"} /\ srv'[s].pc = "exited")
                => /\ srv'[s].exit = 1
                   /\ ~Listening(s)'
                   /\ srv[s].pc = "listen" => path' = "none"
                   /\ srv[s].pc # "listen" => path' = path
                   /\ conn' = conn]_vars
    /\ [](\A s \in Servers :
            /\ srv[s].exit \in {-1, 0, 1}
            /\ srv[s].exit = 1 =>
                /\ srv[s].pc = "exited"
                /\ srv[s].backlog = <<>>
                /\ \A k \in ConnIds : conn[k].srv # s)
    /\ [][\A s \in Servers :
            (srv[s].pc = "select" /\ srv'[s].pc # "crashed")
                => /\ Listening(s)'
                   /\ srv'[s].exit = -1
                   /\ path' = path
                   /\ \A j \in 1..Len(srv[s].backlog) :
                        \/ srv[s].backlog[j] = srv'[s].cur
                        \/ \E i \in 1..Len(srv'[s].backlog) :
                                srv'[s].backlog[i] = srv[s].backlog[j]]_vars

StartupFailureWitness ==
    \E s \in Servers, c \in Clients :
        /\ srv[s].pc = "exited"
        /\ srv[s].exit = 1
        /\ path = "none"
        /\ cli[c].pc = "exited"
        /\ cli[c].last = "connect"

\* C20 (invalid command-line arguments): a client whose command line has,
\* with no help option before it, an iteration count or byte count that is
\* not positive, a negative timeout or an unknown option, exits with code 1
\* and the usage message, having created no socket and attempted no
\* connection.
BadOption(o) ==
    \/ o.opt \in {"n", "b"} /\ atoi(o.arg) <= 0
    \/ o.opt = "t" /\ atoi(o.arg) < 0
    \/ o.opt = "?"

FirstBad(args) ==
    CHOOSE j \in 1..Len(args) :
        BadOption(args[j]) /\ \A i \in 1..(j - 1) : ~BadOption(args[i])

InvalidArgs(args) ==
    \E j \in 1..Len(args) :
        BadOption(args[j]) /\ \A i \in 1..(j - 1) : args[i].opt # "h"

NoNetworkActivity(c) ==
    /\ cli[c].fds = 0
    /\ cli[c].i = 0
    /\ cli[c].results = <<>>
    /\ \A k \in ConnIds : k[1] = c => conn[k] = NullConn

InvalidArgsExitWithUsage ==
    \A c \in Clients :
        (cli[c].pc # "args" /\ InvalidArgs(cli[c].argv)) =>
            /\ cli[c].pc = "exited"
            /\ cli[c].exit = 1
            /\ cli[c].msg = "usage"
            /\ NoNetworkActivity(c)

\* C20 as amended: such a client exits with code 1 having created no socket
\* and attempted no connection; what it prints is the usage message for an
\* unknown option and a one-line error naming the value for an invalid
\* iteration count, byte count or timeout.
InvalidArgsExitWithMessage ==
    \A c \in Clients :
        (cli[c].pc # "args" /\ InvalidArgs(cli[c].argv)) =>
            /\ cli[c].pc = "exited"
            /\ cli[c].exit = 1
            /\ cli[c].msg = IF cli[c].argv[FirstBad(cli[c].argv)].opt = "?"
                            THEN "usage" ELSE "error"
            /\ NoNetworkActivity(c)

InvalidArgsWitness ==
    \E c \in Clients :
        /\ cli[c].pc = "exited"
        /\ cli[c].exit = 1
        /\ cli[c].msg = "error"
        /\ Len(cli[c].argv) = MaxArgs
        /\ cli[c].argv[1].opt = "n"
        /\ cli[c].argv[MaxArgs].opt = "t"
        /\ \E d \in Clients : cli[d].pc = "exited" /\ cli[d].exit = 0

\* C21 (the timeout option does nothing): whatever value -t stores in
\* timeout_ms, the value is never changed or read afterwards; a client that
\* waits in a recv() leaves it only when bytes have arrived or the server
\* has closed, never because time has passed; and against a running server
\* every call of every run succeeds and the run exits 0, so the per-call
\* outcomes and the exit code are one function of iterations and bytes for
\* every timeout value.
Waiting(c) == cli[c].pc \in {"recvhdr", "recvdata"}

ReceiveAbandoned(c) ==
    /\ Waiting(c)
    /\ cli'[c] # cli[c]
    /\ conn[CurConn(c)].s2c = 0
    /\ conn[CurConn(c)].sEnd # "closed"

TimeoutHasNoEffect ==
    /\ [](\A c \in Clients :
            /\ \A j \in 1..Len(cli[c].results) : cli[c].results[j]
            /\ (cli[c].pc = "exited" /\ cli[c].msg = "none") =>
                    /\ cli[c].exit = 0
                    /\ cli[c].successful_calls = cli[c].iterations)
    /\ [][\A c \in Clients :
            /\ cli[c].pc # "args" => cli'[c].timeout_ms = cli[c].timeout_ms
            /\ ~ReceiveAbandoned(c)]_vars

TimeoutWitness ==
    /\ cli["c1"].timeout_ms = 2
    /\ cli["c1"].pc = "exited"
    /\ cli["c1"].msg = "none"
    /\ cli["c1"].iterations = 2
    /\ cli["c1"].results = <<TRUE, TRUE>>
    /\ cli["c1"].exit = 0

\* C22 (server payload write loop): the loop runs only after the whole
\* header was sent and only for num_bytes > 0; every send() that succeeds
\* transfers between 1 and the remaining count, puts exactly that many
\* bytes on the connection and advances total_sent by it, so total_sent
\* grows strictly and never passes num_bytes; the loop ends successfully
\* exactly when total_sent = num_bytes, and a send() that fails ends the
\* handling as failed with nothing more written.
InWriteLoop(s) == srv[s].pc = "senddata"

WriteLoopMoved(s) ==
    srv'[s].pc # srv[s].pc \/ srv'[s].total_sent # srv[s].total_sent

WriteStep(s) ==
    LET k == srv[s].cur
        n == srv'[s].total_sent - srv[s].total_sent
    IN  \/ srv'[s].pc \in {"killed", "crashed"}
        \/ /\ srv'[s].pc = "close"
           /\ srv'[s].res = "data_write"
           /\ n = 0
           /\ conn' = conn
        \/ /\ n \in 1..(srv[s].num_bytes - srv[s].total_sent)
           /\ conn'[k].s2c = conn[k].s2c + n
           /\ srv'[s].num_bytes = srv[s].num_bytes
           /\ IF srv'[s].total_sent = srv[s].num_bytes
              THEN srv'[s].pc = "close" /\ srv'[s].res = "ok"
              ELSE srv'[s].pc = "senddata"

PayloadWriteLoop ==
    /\ [](\A s \in Servers :
            /\ srv[s].total_sent <= srv[s].num_bytes
            /\ InWriteLoop(s) =>
                    /\ srv[s].hdr_sent = HDR
                    /\ srv[s].num_bytes > 0
                    /\ srv[s].total_sent < srv[s].num_bytes
            /\ srv[s].res = "ok" => srv[s].total_sent = srv[s].num_bytes
            /\ srv[s].res = "data_write" => srv[s].total_sent < srv[s].num_bytes
            /\ srv[s].total_sent > 0 => srv[s].hdr_sent = HDR)
    /\ [][\A s \in Servers :
            (InWriteLoop(s) /\ WriteLoopMoved(s)) => WriteStep(s)]_vars

PayloadWriteWitness ==
    \E s \in Servers :
        /\ srv[s].pc = "close"
        /\ srv[s].res = "data_write"
        /\ srv[s].num_bytes = MaxBytes
        /\ srv[s].total_sent = 1

\* C23 (client payload read loop): the loop runs only while total_received
\* < actual_bytes; every recv() that returns data takes between 1 and the
\* remaining count, no more than has arrived, and adds it to
\* total_received; the call is reported successful only with
\* total_received = actual_bytes, and a recv() that finds the connection
\* closed with nothing left makes the call fail and closes the socket.
InReadLoop(c) == cli[c].pc = "recvdata"

ReadLoopMoved(c) ==
    cli'[c].pc # cli[c].pc \/ cli'[c].total_received # cli[c].total_received

ReadStep(c) ==
    LET k == CurConn(c)
        n == cli'[c].total_received - cli[c].total_received
    IN  \/ cli'[c].pc = "killed"
        \/ /\ conn[k].s2c = 0
           /\ conn[k].sEnd = "closed"
           /\ cli'[c].pc = "loop"
           /\ cli'[c].last = "payload"
           /\ cli'[c].results = Append(cli[c].results, FALSE)
           /\ cli'[c].successful_calls = cli[c].successful_calls
           /\ cli'[c].fds = cli[c].fds - 1
        \/ /\ n \in 1..(cli[c].actual_bytes - cli[c].total_received)
           /\ n <= conn[k].s2c
           /\ cli'[c].actual_bytes = cli[c].actual_bytes
           /\ IF cli'[c].total_received = cli[c].actual_bytes
              THEN /\ cli'[c].pc = "loop"
                   /\ cli'[c].last = "ok"
                   /\ cli'[c].results = Append(cli[c].results, TRUE)
                   /\ cli'[c].fds = cli[c].fds - 1
              ELSE /\ cli'[c].pc = "recvdata"
                   /\ conn'[k].s2c = conn[k].s2c - n

PayloadReadLoop ==
    /\ [](\A c \in Clients :
            /\ cli[c].total_received <= cli[c].actual_bytes
            /\ InReadLoop(c) =>
                    /\ cli[c].actual_bytes > 0
                    /\ cli[c].total_received < cli[c].actual_bytes
            /\ (cli[c].pc = "loop" /\ cli[c].last = "ok") =>
                    cli[c].total_received = cli[c].actual_bytes)
    /\ [][\A c \in Clients :
            (InReadLoop(c) /\ ReadLoopMoved(c)) => ReadStep(c)]_vars

PayloadReadWitness ==
    \E c \in Clients :
        /\ InReadLoop(c)
        /\ cli[c].actual_bytes = MaxBytes
        /\ cli[c].total_received = 1
        /\ conn[CurConn(c)].s2c = 0
        /\ conn[CurConn(c)].sEnd = "closed"

\* C24 (server request read): the request is read with one recv() of the
\* header size.  If it returns the whole header the server goes on to
\* generate; if it returns fewer bytes or none, the handling fails at once:
\* no getrandom() call, no header, no payload, nothing on the
\* connection, and the next step closes the connection and is back at
\* the loop condition with the server still listening.
InRequestRead(s) == srv[s].pc = "recv"

RequestReadMoved(s) ==
    srv'[s].pc # srv[s].pc \/ srv'[s].bytes_read # srv[s].bytes_read

RequestReadFailed(s) == srv[s].pc = "close" /\ srv[s].res = "short_read"

RequestReadStep(s) ==
    LET k == srv[s].cur
        n == srv'[s].bytes_read
    IN  \/ srv'[s].pc = "crashed"
        \/ /\ n = conn[k].c2s - conn'[k].c2s
           /\ n \in 0..HDR
           /\ srv'[s].pc = IF n = HDR THEN "generate" ELSE "close"
           /\ srv'[s].res = IF n = HDR THEN "none" ELSE "short_read"
           /\ srv'[s].cur = k

RequestReadFailure ==
    /\ [](\A s \in Servers :
            /\ srv[s].res = "short_read" => srv[s].pc = "close"
            /\ RequestReadFailed(s) =>
                    /\ srv[s].bytes_read # HDR
                    /\ srv[s].entropy_calls = {}
                    /\ ~srv[s].generated
                    /\ srv[s].hdr_sent = 0
                    /\ srv[s].total_sent = 0
                    /\ conn[srv[s].cur].s2c = 0)
    /\ [][\A s \in Servers :
            /\ (InRequestRead(s) /\ RequestReadMoved(s)) => RequestReadStep(s)
            /\ (RequestReadFailed(s) /\ srv'[s].pc # "close") =>
                    \/ srv'[s].pc = "crashed"
                    \/ /\ srv'[s].pc = "loop"
                       /\ srv'[s].running = srv[s].running
                       /\ srv[s].cur \notin Accepted(s)'
                       /\ conn'[srv[s].cur].s2c = 0]_vars

RequestReadWitness ==
    \E s \in Servers :
        /\ RequestReadFailed(s)
        /\ srv[s].bytes_read = HDR \div 2
        /\ srv[s].backlog # <<>>

\* C25 (client request send is single-shot): the step that leaves the
\* send either has put the whole header on the connection and goes on to
\* read the response, or has put less (a short write, or nothing because
\* the send failed) and ends the call: the call is recorded failed, the
\* socket is closed, and the loop moves to the next call without reading
\* from or writing to that connection again.  Only a client killed from
\* outside is excused.
InRequestSend(c) == cli[c].pc = "send"

RequestSendFailed(c) ==
    /\ cli[c].pc = "loop"
    /\ cli[c].last = "send"

RequestSendStep(c) ==
    LET k == CurConn(c)
        n == conn'[k].c2s
    IN  \/ cli'[c].pc = "killed"
        \/ /\ n = HDR
           /\ cli'[c].pc = "recvhdr"
           /\ conn'[k].cEnd = "open"
           /\ cli'[c].results = cli[c].results
        \/ /\ n # HDR
           /\ cli'[c].pc = "loop"
           /\ cli'[c].last = "send"
           /\ cli'[c].i = cli[c].i + 1
           /\ cli'[c].results = Append(cli[c].results, FALSE)
           /\ cli'[c].successful_calls = cli[c].successful_calls
           /\ cli'[c].fds = cli[c].fds - 1
           /\ conn'[k].cEnd = "closed"

RequestSendSingleShot ==
    /\ [](\A c \in Clients :
            /\ Waiting(c) => conn[CurConn(c)].reqNum = cli[c].bytes
            /\ (Waiting(c) /\ conn[CurConn(c)].sEnd = "queued") =>
                    conn[CurConn(c)].c2s = HDR
            /\ RequestSendFailed(c) =>
                    /\ cli[c].fds = 0
                    /\ conn[<<c, cli[c].i>>].cEnd # "open"
                    /\ conn[<<c, cli[c].i>>].c2s < HDR)
    /\ [][\A c \in Clients :
            (InRequestSend(c) /\ cli'[c].pc # "send") => RequestSendStep(c)]_vars

\* C26 (client response-header read): the step that leaves the header
\* read goes on to the payload, or ends the call successfully for an empty
\* payload, only when a whole header had arrived; with fewer bytes there
\* (none, once the server has closed) the call is recorded failed as a
\* header receive error, the socket is closed and no payload is read.
InHeaderRead(c) == cli[c].pc = "recvhdr"

HeaderReadFailed(c) ==
    /\ cli[c].pc = "loop"
    /\ cli[c].last = "hdr"

HeaderReadStep(c) ==
    LET k == CurConn(c)
        avail == conn[k].s2c
    IN  \/ cli'[c].pc = "killed"
        \/ /\ avail >= HDR
           /\ cli'[c].pc = "recvdata"
           /\ conn[k].hdr > 0
           /\ cli'[c].actual_bytes = conn[k].hdr
           /\ cli'[c].total_received = 0
           /\ conn'[k].s2c = avail - HDR
           /\ cli'[c].results = cli[c].results
        \/ /\ avail >= HDR
           /\ cli'[c].pc = "loop"
           /\ cli'[c].last = "ok"
           /\ conn[k].hdr = 0
           /\ cli'[c].results = Append(cli[c].results, TRUE)
        \/ /\ cli'[c].pc = "loop"
           /\ cli'[c].last = "hdr"
           /\ cli'[c].i = cli[c].i + 1
           /\ cli'[c].results = Append(cli[c].results, FALSE)
           /\ cli'[c].successful_calls = cli[c].successful_calls
           /\ cli'[c].total_received = 0
           /\ cli'[c].fds = cli[c].fds - 1
           /\ conn'[k].cEnd # "open"

HeaderReadFailure ==
    /\ [](\A c \in Clients :
            HeaderReadFailed(c) =>
                /\ cli[c].fds = 0
                /\ cli[c].total_received = 0
                /\ conn[<<c, cli[c].i>>].cEnd # "open")
    /\ [][\A c \in Clients :
            (InHeaderRead(c) /\ cli'[c].pc # "recvhdr") =>
                /\ HeaderReadStep(c)
                /\ conn[CurConn(c)].s2c < HDR =>
                        \/ cli'[c].pc = "killed"
                        \/ HeaderReadFailed(c)']_vars

HeaderReadWitness ==
    \E c \in Clients, s \in Servers :
        /\ HeaderReadFailed(c)
        /\ cli[c].results = <<FALSE>>
        /\ srv[s].pc = "select"

\* C27 (signal handler frame): the step in which a server's running flag
\* goes from 1 to 0 changes nothing else of that process, except that a
\* select() under way returns (EINTR) to the loop condition: the path, every
\* connection, the queue of the listening socket, the connection being
\* serviced, the clients and the other server are as before and the server
\* is still listening; and a flag that is 0 stays 0 for as long as the
\* process lives.
FlagCleared(s) == srv[s].running = 1 /\ srv'[s].running = 0

SignalHandlerFrame ==
    [][\A s \in Servers :
        /\ FlagCleared(s) =>
            /\ path' = path
            /\ conn' = conn
            /\ cli' = cli
            /\ \A t \in Servers \ {s} : srv'[t] = srv[t]
            /\ Listening(s)' = Listening(s)
            /\ \/ srv'[s] = [srv[s] EXCEPT !.running = 0]
               \/ /\ srv[s].pc = "select"
                  /\ srv'[s] = [srv[s] EXCEPT !.running = 0, !.pc = "loop",
                                              !.selElapsed = 0]
        /\ (srv[s].running = 0 /\ Alive(s)') => srv'[s].running = 0]_vars

SignalHandlerWitness ==
    \E s \in Servers :
        /\ srv[s].running = 0
        /\ srv[s].pc = "senddata"
        /\ conn[srv[s].cur].sEnd = "accepted"
        /\ srv[s].backlog # <<>>
        /\ path = s

\* C28 (shutdown never cancels an exchange): a server whose flag is
\* cleared while it services a connection goes through the same stations
\* as any other: request read, generation, header, payload, each ending
\* in its own outcome, then the close of the connection, and only then
\* the loop condition.  The process leaves with exit code 0 only from the
\* loop condition, with no connection accepted; only a kill of the
\* process ends an exchange early.
Servicing(s) == srv[s].pc \in {"recv", "generate", "sendhdr", "senddata", "close"}

ServiceSuccessors(pc) ==
    CASE pc = "recv" -> {"generate", "close"}
      [] pc = "generate" -> {"sendhdr", "close"}
      [] pc = "sendhdr" -> {"senddata", "close"}
      [] pc = "senddata" -> {"close"}
      [] pc = "close" -> {"loop"}
      [] OTHER -> {}

AcceptedNow(s) == Accepted(s)' \ Accepted(s)

AtMostOneLateAccept ==
    /\ [](\A s \in Servers :
            (srv[s].pc = "loop" /\ srv[s].running = 0) => Accepted(s) = {})
    /\ [][\A s \in Servers :
            /\ (srv[s].pc # "select" /\ srv'[s].pc = "select") =>
                    /\ srv[s].pc = "loop"
                    /\ srv[s].running = 1
            /\ AcceptedNow(s) # {} =>
                    /\ srv[s].pc = "select"
                    /\ srv'[s].pc = "recv"
                    /\ Accepted(s) = {}
                    /\ AcceptedNow(s) = {Head(srv[s].backlog)}
                    /\ srv'[s].cur = Head(srv[s].backlog)
            /\ (srv[s].running = 0 /\ Alive(s)') => srv'[s].running = 0
            /\ (srv[s].pc = "loop" /\ srv[s].running = 0 /\ srv'[s].pc # "loop") =>
                    srv'[s].pc \in {"exited", "crashed"}]_vars

LateAcceptWitness ==
    \E s \in Servers :
        /\ srv[s].running = 0
        /\ srv[s].pc = "select"
        /\ srv[s].selElapsed = 1
        /\ Len(srv[s].backlog) = 2

\* C29 (shutdown cleanup removes only the server's own endpoint): when a
\* server leaves while the path is bound by another instance that is
\* listening, the path is still bound by that instance afterwards and a
\* connect() still reaches it.
Leaves(s) == srv[s].pc # "exited" /\ srv'[s].pc = "exited"

CleanupKeepsNewerEndpoint ==
    [][\A s \in Servers : \A t \in Servers \ {s} :
        (Leaves(s) /\ path = t /\ Listening(t)) =>
            /\ path' = t
            /\ t \in Reachable']_vars

\* C31 (no starvation by a stalled peer): a client that has connected and
\* sent its complete request has its call answered successfully in the end,
\* also when another client connected earlier and sends nothing.
RequestSent(c) == cli[c].pc = "recvhdr"

CallServed(c) == cli[c].pc \in {"loop", "exited"} /\ cli[c].last = "ok"

NoStarvationByStalledPeer ==
    \A c \in Clients : RequestSent(c) ~> CallServed(c)

\* C32 (the client verifies the response against its request): whatever
\* actual_bytes the peer put in the response header, a call that was
\* recorded successful had read a header whose actual_bytes is the
\* num_bytes the client asked for.
LastCallSucceeded(c) ==
    /\ cli[c].pc \in {"loop", "exited"}
    /\ cli[c].results # <<>>
    /\ cli[c].results[Len(cli[c].results)]

SuccessOnlyForRequestedSize ==
    \A c \in Clients : LastCallSucceeded(c) => cli[c].actual_bytes = cli[c].bytes

====
